---- MODULE Spec2Model ----
(***************************************************************************)
(* Model of src/generate.py: main() counts the outputs already in the log  *)
(* directory, starts worker threads that share counter['value'] under      *)
(* counter_lock, and joins them.  Each worker loops: check the counter,    *)
(* call the API, decode, validate, and write one file under the lock.      *)
(* A second specification, XesSpec, models src/xes.py, which turns the     *)
(* files of a log directory into the traces of an event log.               *)
(***************************************************************************)
EXTENDS Integers, Sequences, FiniteSets, TLC

\* ------------------------------------------------------------------ bounds

\* args.total ranges over 0..MaxTotal.
MaxTotal == 3

\* The log directory holds 0..MaxExisting *.json files when main() starts.
MaxExisting == 2

\* generate.py:27 sets MAX_THREADS = 30; the model scales the cap down so that
\* both  cap < remaining work  and  cap >= remaining work  occur.
MAX_THREADS == 2

Threads == 1..MAX_THREADS

\* xes.py: an events list holds 0..MaxEvents events.
MaxEvents == 2

\* xes.py: the directory read by the exporter holds 1..MaxFiles files.
MaxFiles == 1

\* ------------------------------------------------------------------ state

VARIABLES
    promptExists,   \* processes/NAME.txt is a file            (line 35)
    schemaExists,   \* schemas/NAME.json is a file             (line 38)
    apiKeySet,      \* OPENAI_API_KEY is set and non-empty     (lines 133-134)
    total,          \* args.total, passed on as target_total
    log_dir,        \* the directory logs/NAME: file name -> content
    mainPc,         \* position of main()
    existing,       \* main's local `existing`                 (line 140)
    counter,        \* main's dict `counter`; << >> before line 148
    counter_lock,   \* the set of threads holding counter_lock (empty: unlocked)
    num_threads,    \* main's local `num_threads`              (line 152)
    started,        \* len(threads): threads started so far    (lines 154-161)
    joined,         \* threads joined so far                   (lines 164-165)
    pc,             \* position of each worker thread
    cand,           \* worker locals content / data: the candidate in hand
    out_path,       \* worker local out_path: the file being written (0: none)
    err,            \* the error a worker last printed (lines 92, 100)
    validReturned,  \* history: schema-valid candidates the API has returned
    clientFailed,   \* history: some call failed or returned an invalid candidate
    lateCalls,      \* history: calls a worker started with the target already met
    rejected,       \* history: commits of a worker refused at line 113 (0..2)
    xesFiles,       \* xes.py: the *.json files of logs/NAME, sorted by name
    xesPos,         \* xes.py: files load_json_traces has gone through
    xesPending,     \* xes.py: the tuple yielded at line 48, not yet consumed
    xesLog,         \* xes.py: the EventLog built so far (a sequence of traces)
    xesPc           \* xes.py: position of main()

vars == << promptExists, schemaExists, apiKeySet, total, log_dir, mainPc, existing,
           counter, counter_lock, num_threads, started, joined, pc, cand, out_path,
           err, validReturned, clientFailed, lateCalls, rejected,
           xesFiles, xesPos, xesPending, xesLog, xesPc >>

inputVars == << promptExists, schemaExists, apiKeySet, total >>
xesVars == << xesFiles, xesPos, xesPending, xesLog, xesPc >>
\* What no step of generate.py changes: its inputs, and the exporter's state.
genFrame == << inputVars, xesVars >>
mainVars == << mainPc, existing, num_threads, started, joined >>
histVars == << validReturned, clientFailed, lateCalls, rejected >>

\* ------------------------------------------------------------- vocabulary

\* What requests.post / raise_for_status / the envelope lookup can raise
\* (lines 65-66, 90); all are caught by `except Exception` at line 91.
RequestErrors == {"ConnectionError", "HTTPError", "BadEnvelope"}

\* The candidate texts the API can return in choices[0].message.content.
CandidateTexts == {"notjson", "violating", "valid"}

Responses == RequestErrors \cup CandidateTexts

\* Content of a file of the log directory: "old" for a file that was there
\* at startup, "partial" for a file opened for writing whose dump has not
\* completed, otherwise the candidate that was dumped into it.
FileContents == {"old", "partial"} \cup CandidateTexts

WorkerPcs == {"NotStarted", "Checking", "CheckLocked", "Requesting", "InFlight",
              "Parsing", "Validating", "Committing", "CommitLocked", "Opening",
              "Dumping", "Incrementing", "Done", "Crashed"}

MainPcs == {"LoadFiles", "ReadKey", "CountExisting", "Launch", "Join",
            "Completed", "Returned", "Exit1"}

\* ---------------------------------------------------------- pure helpers

Min(a, b) == IF a < b THEN a ELSE b

\* counter['value'] exists from line 148 on.
CounterCreated == "value" \in DOMAIN counter

\* Faulty variant of line 84 (`>` for `>=`): C10 must detect it.
TargetMetStrict(c, t) == c > t

\* line 84: counter['value'] >= target_total
TargetMet(c, t) == c >= t

\* Faulty variant of line 105 (`<=` for `<`): C2 must detect it.
HasRoomOffByOne(c, t) == c <= t

\* line 105: counter['value'] < target_total
HasRoom(c, t) == c < t

\* Faulty variant of line 143 (`>` for `>=`): C9 must detect it.
NothingToDoStrict(e, t) == e > t

\* line 143: existing >= args.total
NothingToDo(e, t) == e >= t

\* Faulty variant of line 152 (the cap left out): C16 must detect it.
NumThreadsNoCap(e, t) == t - e

\* line 152: min(MAX_THREADS, args.total - existing)
NumThreads(e, t) == Min(MAX_THREADS, t - e)

\* line 97: json.loads(content) raises JSONDecodeError on text that is not JSON.
JsonLoadsFails(content) == content = "notjson"

\* line 98: validate(instance=data, schema=schema) raises ValidationError.
ValidateFails(data) == data = "violating"

\* Faulty variant of line 99 (JSONDecodeError left out of the except clause):
\* C7 must detect it.
CaughtAt99Narrow == {"ValidationError"}

\* line 99: the exceptions the second try block catches.
CaughtAt99 == {"JSONDecodeError", "ValidationError"}

\* line 106: uuid.uuid4() is collision-free; the file names of the directory
\* are 1..n, and the fresh name is the next one.
uuid4(dir) == Cardinality(DOMAIN dir) + 1

\* line 140: len(list(log_dir.glob("*.json")))
CountJson(dir) == Cardinality(DOMAIN dir)

\* The files this run has created (every name that was not there at startup).
Created == {n \in DOMAIN log_dir : log_dir[n] # "old"}

AlreadyPersisted == Cardinality({n \in DOMAIN log_dir : log_dir[n] = "old"})

\* A thread has terminated: returned from worker(), or died of an exception.
Finished(t) == pc[t] \in {"Done", "Crashed"}

\* ------------------------------------------------------ xes.py: values

\* JSON values as they appear in events and attributes.  A string is a
\* sequence of tokens; the tokens of a timestamp are a date-time body
\* ("D1", "D2"), a UTC offset ("+00:00", "+01:00"), the letter "Z", and "x"
\* for anything else.
Str(s) == [kind |-> "str", s |-> s]
Num(n) == [kind |-> "num", n |-> n]
None == [kind |-> "none"]

\* A datetime object: the local date-time and its offset ("naive": none).
DateTime(d, o) == [kind |-> "datetime", local |-> d, tz |-> o]

Bodies == {"D1", "D2"}
Offsets == {"+00:00", "+01:00"}

\* line 73: ts_str.endswith(suffix)
EndsWith(s, suffix) == Len(s) > 0 /\ s[Len(s)] = suffix

\* line 74: ts_str[:-6] + 'Z'  (the six characters are the token "+00:00")
DropSuffixAddZ(s) == Append(SubSeq(s, 1, Len(s) - 1), "Z")

\* line 76: ts_str.replace('Z', '+00:00') replaces every "Z" of the string.
ReplaceZ(s) == [i \in 1..Len(s) |-> IF s[i] = "Z" THEN "+00:00" ELSE s[i]]

\* line 78: datetime.fromisoformat accepts a body, or a body and an offset.
IsoValid(s) ==
    \/ Len(s) = 1 /\ s[1] \in Bodies
    \/ Len(s) = 2 /\ s[1] \in Bodies /\ s[2] \in Offsets

FromIso(s) == IF Len(s) = 1 THEN DateTime(s[1], "naive") ELSE DateTime(s[1], s[2])

\* Faulty variant of lines 65, 67 (the value copied to the new key, the old
\* key kept): C15 must detect it.
RenameKeyKeepsOld(ev, from, to) ==
    IF from \in DOMAIN ev
      THEN [k \in DOMAIN ev \cup {to} |-> IF k = to THEN ev[from] ELSE ev[k]]
      ELSE ev

\* lines 64-67: if from in ev: ev[to] = ev.pop(from)
RenameKey(ev, from, to) ==
    IF from \in DOMAIN ev
      THEN [k \in (DOMAIN ev \ {from}) \cup {to} |-> IF k = to THEN ev[from] ELSE ev[k]]
      ELSE ev

\* lines 70-81: a string under time:timestamp is parsed, with a '+00:00'
\* suffix first rewritten to 'Z' and a 'Z' suffix rewritten back for the
\* parser; a string that does not parse is left as it is.
ConvertTimestamp(ev) ==
    IF "time:timestamp" \in DOMAIN ev /\ ev["time:timestamp"].kind = "str"
      THEN LET ts0 == ev["time:timestamp"].s
               ts_str == IF EndsWith(ts0, "+00:00") THEN DropSuffixAddZ(ts0) ELSE ts0
               parse_str == IF EndsWith(ts_str, "Z") THEN ReplaceZ(ts_str) ELSE ts_str
           IN  IF IsoValid(parse_str)
                 THEN [ev EXCEPT !["time:timestamp"] = FromIso(parse_str)]
                 ELSE ev
      ELSE ev

\* lines 62-84: what the loop body makes of one event.
ConvertEvent(ev) ==
    ConvertTimestamp(RenameKey(RenameKey(ev, "activity", "concept:name"),
                               "timestamp", "time:timestamp"))

\* lines 56-60, 62-85: the trace built from one yielded tuple.
BuildTrace(trace_id, events, cluster) ==
    [attributes |-> IF cluster # None
                      THEN ("concept:name" :> Num(trace_id)) @@ ("cluster" :> cluster)
                      ELSE ("concept:name" :> Num(trace_id)),
     events |-> [i \in 1..Len(events) |-> ConvertEvent(events[i])]]

\* ------------------------------------------------------ xes.py: inputs

\* The events the model draws from: attribute mappings, as the artifacts hold.
SampleEvents ==
    { ("activity" :> Str(<<"A">>)) @@ ("timestamp" :> Str(<<"D1", "+00:00">>)),
      ("activity" :> Str(<<"B">>)) @@ ("timestamp" :> Str(<<"D1", "Z">>)),
      ("activity" :> Str(<<"A">>)) @@ ("timestamp" :> Str(<<"D2", "+01:00">>))
          @@ ("resource" :> Str(<<"r">>)),
      ("concept:name" :> Str(<<"B">>)) @@ ("timestamp" :> Str(<<"x", "Z", "Z">>)),
      ("activity" :> Str(<<"B">>)) @@ ("time:timestamp" :> Num(7)),
      ("activity" :> Str(<<"A">>)) @@ ("concept:name" :> Str(<<"B">>))
          @@ ("timestamp" :> Str(<<"D1">>)) @@ ("time:timestamp" :> Str(<<"x">>)) }

EventLists == UNION {[1..n -> SampleEvents] : n \in 0..MaxEvents}

ShortEventLists == {l \in EventLists : Len(l) <= 1}

\* The content of one file: json is "invalid" (json.load raises), "object",
\* "array" or "scalar"; an object may have a cluster and may have an events
\* member, which is a list or not; an array is its own events list.
File(json, hasEvents, isList, events, cluster) ==
    [json |-> json, hasEvents |-> hasEvents, isList |-> isList, events |-> events,
     cluster |-> cluster]

SampleFiles ==
    {File("object", TRUE, TRUE, l, None) : l \in EventLists}
    \cup {File("object", TRUE, TRUE, l, Str(<<"c1">>)) : l \in ShortEventLists}
    \cup {File("array", FALSE, FALSE, l, None) : l \in ShortEventLists}
    \cup { File("invalid", FALSE, FALSE, << >>, None),
           File("scalar", FALSE, FALSE, << >>, None),
           File("object", FALSE, FALSE, << >>, Str(<<"c1">>)),
           File("object", TRUE, FALSE, << >>, None) }

\* lines 40-43: the file yields an events list.
HasEventsList(f) ==
    \/ f.json = "object" /\ f.hasEvents /\ f.isList
    \/ f.json = "array"

\* lines 35-37: the cluster attribute of an object that has one.
ClusterOf(f) == IF f.json = "object" THEN f.cluster ELSE None

\* The exporter is a separate program: it does not run during generate.py.
XesIdle ==
    /\ xesFiles = << >>
    /\ xesPos = 0
    /\ xesPending = << >>
    /\ xesLog = << >>
    /\ xesPc = "Idle"

\* ------------------------------------------------------------------- Init

Init ==
    /\ promptExists \in BOOLEAN
    /\ schemaExists \in BOOLEAN
    /\ apiKeySet \in BOOLEAN
    /\ total \in 0..MaxTotal
    /\ \E k \in 0..MaxExisting : log_dir = [n \in 1..k |-> "old"]
    /\ mainPc = "LoadFiles"
    /\ existing = 0
    /\ counter = << >>
    /\ counter_lock = {}
    /\ num_threads = 0
    /\ started = 0
    /\ joined = 0
    /\ pc = [t \in Threads |-> "NotStarted"]
    /\ cand = [t \in Threads |-> "none"]
    /\ out_path = [t \in Threads |-> 0]
    /\ err = [t \in Threads |-> "none"]
    /\ validReturned = 0
    /\ clientFailed = FALSE
    /\ lateCalls = [t \in Threads |-> 0]
    /\ rejected = [t \in Threads |-> 0]
    /\ XesIdle

\* ------------------------------------------------------------------- main

workerVars == << pc, cand, out_path, err >>

\* lines 130, 30-44: load_process_files exits with status 1 when the prompt or
\* the schema file is missing.
LoadProcessFiles ==
    /\ mainPc = "LoadFiles"
    /\ mainPc' = IF promptExists /\ schemaExists THEN "ReadKey" ELSE "Exit1"
    /\ UNCHANGED << genFrame, log_dir, existing, counter, counter_lock, num_threads,
                    started, joined, workerVars, histVars >>

\* Faulty variant of lines 133-136 (the check of the API key left out): C14
\* must detect it.
ReadApiKeyNoCheck ==
    /\ mainPc = "ReadKey"
    /\ mainPc' = "CountExisting"
    /\ UNCHANGED << genFrame, log_dir, existing, counter, counter_lock, num_threads,
                    started, joined, workerVars, histVars >>

\* lines 133-136: a missing API key exits with status 1.
ReadApiKey ==
    /\ mainPc = "ReadKey"
    /\ mainPc' = IF apiKeySet THEN "CountExisting" ELSE "Exit1"
    /\ UNCHANGED << genFrame, log_dir, existing, counter, counter_lock, num_threads,
                    started, joined, workerVars, histVars >>

\* lines 139-152: count the existing outputs; return when the target is already
\* met, otherwise create the shared counter and size the pool.
CountExisting ==
    /\ mainPc = "CountExisting"
    /\ existing' = CountJson(log_dir)
    /\ IF NothingToDo(existing', total)
         THEN /\ mainPc' = "Returned"
              /\ UNCHANGED << counter, num_threads >>
         ELSE /\ counter' = [value |-> existing']
              /\ num_threads' = NumThreads(existing', total)
              /\ mainPc' = IF num_threads' > 0 THEN "Launch" ELSE "Completed"
    /\ UNCHANGED << genFrame, log_dir, counter_lock, started, joined, workerVars,
                    histVars >>

\* lines 154-161: start the next worker thread.
StartThread ==
    /\ mainPc = "Launch"
    /\ started < num_threads
    /\ started' = started + 1
    /\ pc' = [pc EXCEPT ![started'] = "Checking"]
    /\ mainPc' = IF started' = num_threads THEN "Join" ELSE "Launch"
    /\ UNCHANGED << genFrame, log_dir, existing, counter, counter_lock, num_threads,
                    joined, cand, out_path, err, histVars >>

\* lines 164-167: t.join() returns once the thread has terminated; after the
\* last join main prints the final count.
Join ==
    /\ mainPc = "Join"
    /\ Finished(joined + 1)
    /\ joined' = joined + 1
    /\ mainPc' = IF joined' = num_threads THEN "Completed" ELSE "Join"
    /\ UNCHANGED << genFrame, log_dir, existing, counter, counter_lock, num_threads,
                    started, workerVars, histVars >>

\* ----------------------------------------------------------------- worker

\* line 83: `with counter_lock:` blocks until the lock is free; a new loop
\* iteration begins.
AcquireCheck(t) ==
    /\ pc[t] = "Checking"
    /\ counter_lock = {}
    /\ counter_lock' = {t}
    /\ pc' = [pc EXCEPT ![t] = "CheckLocked"]
    /\ err' = [err EXCEPT ![t] = "none"]
    /\ UNCHANGED << genFrame, mainVars, log_dir, counter, cand, out_path, histVars >>

\* Faulty variant of lines 83-89 (the API call made inside the with block, so
\* the lock is still held when the worker goes on to its request): C12 must
\* detect it.
CheckKeepsLock(t) ==
    /\ pc[t] = "CheckLocked"
    /\ pc' = [pc EXCEPT ![t] = IF TargetMet(counter.value, total)
                                 THEN "Done" ELSE "Requesting"]
    /\ counter_lock' = IF TargetMet(counter.value, total) THEN {} ELSE counter_lock
    /\ UNCHANGED << genFrame, mainVars, log_dir, counter, cand, out_path, err,
                    histVars >>

\* lines 84-85: return when the target is met; leaving the with block
\* releases the lock either way.
Check(t) ==
    /\ pc[t] = "CheckLocked"
    /\ pc' = [pc EXCEPT ![t] = IF TargetMet(counter.value, total)
                                 THEN "Done" ELSE "Requesting"]
    /\ counter_lock' = {}
    /\ UNCHANGED << genFrame, mainVars, log_dir, counter, cand, out_path, err,
                    histVars >>

\* lines 89, 65: the request is sent, outside the lock.
StartCall(t) ==
    /\ pc[t] = "Requesting"
    /\ pc' = [pc EXCEPT ![t] = "InFlight"]
    /\ lateCalls' = [lateCalls EXCEPT ![t] =
                        IF counter.value >= total THEN Min(@ + 1, 2) ELSE @]
    /\ UNCHANGED << genFrame, mainVars, log_dir, counter, counter_lock, cand,
                    out_path, err, validReturned, clientFailed, rejected >>

\* lines 65-67, 90-93: the call returns.  A connection failure, a non-2xx
\* status and an envelope without choices[0].message.content all raise inside
\* the first try block: the worker prints the error and continues the loop.
CallReturns(t) ==
    /\ pc[t] = "InFlight"
    /\ \E r \in Responses :
         /\ IF r \in RequestErrors
              THEN /\ pc' = [pc EXCEPT ![t] = "Checking"]
                   /\ err' = [err EXCEPT ![t] = r]
                   /\ cand' = cand
              ELSE /\ pc' = [pc EXCEPT ![t] = "Parsing"]
                   /\ cand' = [cand EXCEPT ![t] = r]
                   /\ err' = err
         /\ validReturned' = IF r = "valid" THEN Min(validReturned + 1, MaxTotal)
                                            ELSE validReturned
         /\ clientFailed' = (clientFailed \/ r # "valid")
    /\ UNCHANGED << genFrame, mainVars, log_dir, counter, counter_lock, out_path,
                    lateCalls, rejected >>

\* What a worker does with exception e raised inside the second try block
\* (lines 96-101): a caught one is printed and the loop continues, any other
\* one ends the thread.
Raise99(t, e) ==
    /\ pc' = [pc EXCEPT ![t] = IF e \in CaughtAt99 THEN "Checking" ELSE "Crashed"]
    /\ err' = [err EXCEPT ![t] = e]
    /\ cand' = [cand EXCEPT ![t] = "none"]

\* line 97: data = json.loads(content)
Parse(t) ==
    /\ pc[t] = "Parsing"
    /\ IF JsonLoadsFails(cand[t])
         THEN Raise99(t, "JSONDecodeError")
         ELSE /\ pc' = [pc EXCEPT ![t] = "Validating"]
              /\ UNCHANGED << cand, err >>
    /\ UNCHANGED << genFrame, mainVars, log_dir, counter, counter_lock, out_path,
                    histVars >>

\* Faulty variant of lines 98-101 (the `continue` of line 101 left out, so a
\* candidate that fails validation falls through to the write): C5 must
\* detect it.
ValidateNoContinue(t) ==
    /\ pc[t] = "Validating"
    /\ pc' = [pc EXCEPT ![t] = "Committing"]
    /\ err' = [err EXCEPT ![t] = IF ValidateFails(cand[t]) THEN "ValidationError" ELSE @]
    /\ UNCHANGED << genFrame, mainVars, log_dir, counter, counter_lock, cand,
                    out_path, histVars >>

\* line 98: validate(instance=data, schema=schema)
Validate(t) ==
    /\ pc[t] = "Validating"
    /\ IF ValidateFails(cand[t])
         THEN Raise99(t, "ValidationError")
         ELSE /\ pc' = [pc EXCEPT ![t] = "Committing"]
              /\ UNCHANGED << cand, err >>
    /\ UNCHANGED << genFrame, mainVars, log_dir, counter, counter_lock, out_path,
                    histVars >>

\* Faulty variant of line 104 (the critical section entered without waiting
\* for the lock): C11 must detect it.
AcquireCommitNoWait(t) ==
    /\ pc[t] = "Committing"
    /\ counter_lock' = counter_lock \cup {t}
    /\ pc' = [pc EXCEPT ![t] = "CommitLocked"]
    /\ UNCHANGED << genFrame, mainVars, log_dir, counter, cand, out_path, err,
                    histVars >>

\* line 104: `with counter_lock:` blocks until the lock is free.
AcquireCommit(t) ==
    /\ pc[t] = "Committing"
    /\ counter_lock = {}
    /\ counter_lock' = {t}
    /\ pc' = [pc EXCEPT ![t] = "CommitLocked"]
    /\ UNCHANGED << genFrame, mainVars, log_dir, counter, cand, out_path, err,
                    histVars >>

\* lines 105, 113-115: with no room left the worker returns (and releases the
\* lock); otherwise it goes on to write, still holding the lock.
CommitCheck(t) ==
    /\ pc[t] = "CommitLocked"
    /\ IF HasRoom(counter.value, total)
         THEN /\ pc' = [pc EXCEPT ![t] = "Opening"]
              /\ UNCHANGED << counter_lock, cand, rejected >>
         ELSE /\ pc' = [pc EXCEPT ![t] = "Done"]
              /\ counter_lock' = {}
              /\ cand' = [cand EXCEPT ![t] = "none"]
              /\ rejected' = [rejected EXCEPT ![t] = Min(@ + 1, 2)]
    /\ UNCHANGED << genFrame, mainVars, log_dir, counter, out_path, err,
                    validReturned, clientFailed, lateCalls >>

\* Faulty variant of lines 104-115 (acquire() and release() called by hand
\* with no try/finally, so an exception skips the release): C20 must detect it.
RaiseInLockLeak(t, e) ==
    /\ pc' = [pc EXCEPT ![t] = "Crashed"]
    /\ err' = [err EXCEPT ![t] = e]
    /\ counter_lock' = counter_lock

\* An exception raised inside the with block of lines 104-115 is caught
\* nowhere: the with statement releases the lock and the thread ends.
RaiseInLock(t, e) ==
    /\ pc' = [pc EXCEPT ![t] = "Crashed"]
    /\ err' = [err EXCEPT ![t] = e]
    /\ counter_lock' = {}

\* lines 106-108: a fresh name, and open(out_path, 'w') creates the empty file
\* or raises OSError.
Open(t) ==
    /\ pc[t] = "Opening"
    /\ \/ /\ out_path' = [out_path EXCEPT ![t] = uuid4(log_dir)]
          /\ log_dir' = [n \in DOMAIN log_dir \cup {out_path'[t]} |->
                            IF n = out_path'[t] THEN "partial" ELSE log_dir[n]]
          /\ pc' = [pc EXCEPT ![t] = "Dumping"]
          /\ UNCHANGED << counter_lock, err >>
       \/ /\ RaiseInLock(t, "OSError")
          /\ UNCHANGED << log_dir, out_path >>
    /\ UNCHANGED << genFrame, mainVars, counter, cand, histVars >>

\* line 109 and the close at the end of line 108's with block: json.dump
\* writes the document, or raises part-way (OSError on a full disk,
\* UnicodeEncodeError on a string holding a lone surrogate) and leaves what
\* was written so far in the file.
Dump(t) ==
    /\ pc[t] = "Dumping"
    /\ \/ /\ log_dir' = [log_dir EXCEPT ![out_path[t]] = cand[t]]
          /\ pc' = [pc EXCEPT ![t] = "Incrementing"]
          /\ UNCHANGED << counter_lock, err >>
       \/ /\ RaiseInLock(t, "WriteError")
          /\ UNCHANGED log_dir
    /\ UNCHANGED << genFrame, mainVars, counter, cand, out_path, histVars >>

\* lines 110-112: counter['value'] += 1, the progress print, and the end of
\* the with block of line 104; the loop starts over.
Increment(t) ==
    /\ pc[t] = "Incrementing"
    /\ counter' = [counter EXCEPT !.value = @ + 1]
    /\ counter_lock' = {}
    /\ pc' = [pc EXCEPT ![t] = "Checking"]
    /\ cand' = [cand EXCEPT ![t] = "none"]
    /\ out_path' = [out_path EXCEPT ![t] = 0]
    /\ UNCHANGED << genFrame, mainVars, log_dir, err, histVars >>

worker(t) ==
    \/ AcquireCheck(t)
    \/ Check(t)
    \/ StartCall(t)
    \/ CallReturns(t)
    \/ Parse(t)
    \/ Validate(t)
    \/ AcquireCommit(t)
    \/ CommitCheck(t)
    \/ Open(t)
    \/ Dump(t)
    \/ Increment(t)

main ==
    \/ LoadProcessFiles
    \/ ReadApiKey
    \/ CountExisting
    \/ StartThread
    \/ Join

Next == main \/ \E t \in Threads : worker(t)

Spec == Init /\ [][Next]_vars

\* Every started thread is scheduled again and again (threading.Thread,
\* lines 155-160): a worker step that stays possible is eventually taken.
\* Nothing is assumed about which waiting thread gets a contended lock.
FairSpec == Spec /\ \A t \in Threads : WF_vars(worker(t))

\* ----------------------------------------------------------------- xes.py

genVars == << inputVars, mainVars, log_dir, counter, counter_lock, workerVars,
              histVars >>

\* generate.py is not running while the exporter runs.
GenIdle ==
    /\ promptExists = TRUE /\ schemaExists = TRUE /\ apiKeySet = TRUE
    /\ total = 0
    /\ log_dir = << >>
    /\ mainPc = "Returned"
    /\ existing = 0
    /\ counter = << >>
    /\ counter_lock = {}
    /\ num_threads = 0
    /\ started = 0
    /\ joined = 0
    /\ pc = [t \in Threads |-> "NotStarted"]
    /\ cand = [t \in Threads |-> "none"]
    /\ out_path = [t \in Threads |-> 0]
    /\ err = [t \in Threads |-> "none"]
    /\ validReturned = 0
    /\ clientFailed = FALSE
    /\ lateCalls = [t \in Threads |-> 0]
    /\ rejected = [t \in Threads |-> 0]

\* xes.py main() starts with the files of logs/NAME as it finds them.
XesInit ==
    /\ GenIdle
    /\ xesFiles \in UNION {[1..n -> SampleFiles] : n \in 0..MaxFiles}
    /\ xesPos = 0
    /\ xesPending = << >>
    /\ xesLog = << >>
    /\ xesPc = "CheckDir"

\* lines 97-100: a missing logs directory (which then holds no file) exits
\* with status 1.
XesCheckDir ==
    /\ xesPc = "CheckDir"
    /\ \/ xesPc' = "Loading"
       \/ xesFiles = << >> /\ xesPc' = "Exit1"
    /\ UNCHANGED << genVars, xesFiles, xesPos, xesPending, xesLog >>

\* lines 25-48: load_json_traces takes the next file in sorted order; a file
\* that does not load or has no events list is skipped with a warning,
\* otherwise (trace_id, events, cluster) is yielded.
XesLoad ==
    /\ xesPc = "Loading"
    /\ xesPending = << >>
    /\ xesPos < Len(xesFiles)
    /\ xesPos' = xesPos + 1
    /\ LET f == xesFiles[xesPos'] IN
         xesPending' = IF HasEventsList(f)
                         THEN << [trace_id |-> xesPos', events |-> f.events,
                                  cluster |-> ClusterOf(f)] >>
                         ELSE << >>
    /\ UNCHANGED << genVars, xesFiles, xesLog, xesPc >>

\* lines 55-87: build_event_log turns the yielded tuple into a trace and
\* appends it to the log.
XesBuild ==
    /\ xesPc = "Loading"
    /\ xesPending # << >>
    /\ xesLog' = Append(xesLog, BuildTrace(xesPending[1].trace_id,
                                           xesPending[1].events,
                                           xesPending[1].cluster))
    /\ xesPending' = << >>
    /\ UNCHANGED << genVars, xesFiles, xesPos, xesPc >>

\* lines 106-113: with every file gone through, the log is written; a
\* failure of the exporter exits with status 1.
XesExport ==
    /\ xesPc = "Loading"
    /\ xesPending = << >>
    /\ xesPos = Len(xesFiles)
    /\ \/ xesPc' = "Exported"
       \/ xesPc' = "Exit1"
    /\ UNCHANGED << genVars, xesFiles, xesPos, xesPending, xesLog >>

XesNext == XesCheckDir \/ XesLoad \/ XesBuild \/ XesExport

XesSpec == XesInit /\ [][XesNext]_vars

\* ------------------------------------------------------------ type check

TypeOK ==
    /\ mainPc \in MainPcs
    /\ total \in 0..MaxTotal
    /\ \A n \in DOMAIN log_dir : log_dir[n] \in FileContents
    /\ DOMAIN log_dir = 1..Cardinality(DOMAIN log_dir)
    /\ CounterCreated => counter.value \in Nat
    /\ counter_lock \subseteq Threads
    /\ pc \in [Threads -> WorkerPcs]
    /\ cand \in [Threads -> CandidateTexts \cup {"none"}]
    /\ started \in 0..MAX_THREADS /\ joined \in 0..started

\* ----------------------------------------------------------------- claims

\* The threads inside the critical section of lines 104-115.
InCommitSection(t) == pc[t] \in {"CommitLocked", "Opening", "Dumping", "Incrementing"}

\* The files of this run whose dump has completed.
CompleteCreated == {n \in Created : log_dir[n] # "partial"}

\* C1: the number of files a run creates in the log directory never exceeds
\* target - alreadyPersisted.
C1_CreatedWithinRemaining ==
    AlreadyPersisted <= total => Cardinality(Created) <= total - AlreadyPersisted

\* C2: once the counter exists, 0 <= counter['value'] <= target in every state,
\* and every step that changes it adds exactly 1 and is the increment that ends
\* one worker's successful write.
C2_CountBoundedMonotone ==
    /\ [](CounterCreated => (0 <= counter.value /\ counter.value <= total))
    /\ [][CounterCreated =>
            \/ counter' = counter
            \/ /\ counter'.value = counter.value + 1
               /\ \E t \in Threads :
                    /\ pc[t] = "Incrementing" /\ pc'[t] = "Checking"
                    /\ log_dir[out_path[t]] = cand[t]
                    /\ \A u \in Threads \ {t} : pc'[u] = pc[u]]_vars

C2_Witness ==
    /\ CounterCreated
    /\ counter.value = total
    /\ counter.value >= existing + 2

\* C3 (final result): when main has joined every worker and the API has
\* returned at least target - alreadyPersisted schema-valid candidates, the
\* final count equals the target.
C3_FinalCountIsTarget ==
    (mainPc = "Completed" /\ validReturned >= total - existing)
        => counter.value = total

\* C4: with the cap above the remaining work R and only valid candidates
\* returned, the finished run has created exactly R files, each a complete
\* artifact under its own name.
C4_ExactlyRemainingCreated ==
    (mainPc = "Completed" /\ ~clientFailed /\ MAX_THREADS > total - existing)
        => /\ Cardinality(Created) = total - existing
           /\ CompleteCreated = Created

\* C5: every file this run has written, and every candidate a worker is about
\* to write, decoded as JSON and passed validation; a candidate under
\* validation has decoded.
C5_OnlyValidPersisted ==
    /\ \A n \in CompleteCreated :
         ~JsonLoadsFails(log_dir[n]) /\ ~ValidateFails(log_dir[n])
    /\ \A t \in Threads :
         /\ pc[t] = "Validating" => (cand[t] \in CandidateTexts /\ ~JsonLoadsFails(cand[t]))
         /\ (pc[t] = "Committing" \/ InCommitSection(t))
              => /\ cand[t] \in CandidateTexts
                 /\ ~JsonLoadsFails(cand[t]) /\ ~ValidateFails(cand[t])

C5_Witness ==
    /\ \E n \in CompleteCreated : log_dir[n] = "valid"
    /\ \E t \in Threads : err[t] = "JSONDecodeError"
    /\ \E t \in Threads : err[t] = "ValidationError"

\* C6: a worker thread that has terminated implies the target is met.
C6_ExitOnlyWhenTargetMet ==
    \A t \in Threads : Finished(t) => counter.value >= total

\* C7: a step in which a worker reports a request error, a decode error or a
\* schema violation takes that worker back to the check at the top of the loop
\* and changes neither the counter, nor the log directory, nor main, nor any
\* other worker.
C7_ErrorsAbsorbed ==
    [][\A t \in Threads :
         ( \/ pc[t] = "InFlight" /\ err'[t] \in RequestErrors
           \/ pc[t] = "Parsing" /\ JsonLoadsFails(cand[t]) /\ pc'[t] # pc[t]
           \/ pc[t] = "Validating" /\ ValidateFails(cand[t]) /\ pc'[t] # pc[t] )
         => /\ pc'[t] = "Checking"
            /\ counter' = counter
            /\ log_dir' = log_dir
            /\ mainPc' = mainPc
            /\ \A u \in Threads \ {t} : pc'[u] = pc[u]]_vars

C7_Witness ==
    \E t, u \in Threads :
        /\ pc[t] = "Checking" /\ err[t] \in RequestErrors
        /\ pc[u] = "Checking" /\ err[u] \in CaughtAt99
        /\ counter.value < total

\* C8: whenever no worker is inside the commit critical section, the number of
\* files created by this run equals counter['value'] minus its initial value.
C8_OneFilePerCommit ==
    (CounterCreated /\ \A t \in Threads : ~InCommitSection(t))
        => Cardinality(Created) = counter.value - existing

\* C9: started with alreadyPersisted >= target, main never creates the counter
\* or a thread, no call is made, no file is created, and main returns with
\* the count it found.
C9_NothingToDoReturns ==
    AlreadyPersisted >= total =>
        /\ mainPc \in {"LoadFiles", "ReadKey", "CountExisting", "Returned", "Exit1"}
        /\ ~CounterCreated
        /\ started = 0 /\ num_threads = 0
        /\ \A t \in Threads : pc[t] = "NotStarted"
        /\ validReturned = 0 /\ ~clientFailed
        /\ Created = {}
        /\ mainPc = "Returned" => existing = AlreadyPersisted

C9_Witness ==
    /\ mainPc = "Returned"
    /\ total > 0
    /\ AlreadyPersisted = total

\* C10 as claimed: no worker starts an API call once the target is met.
C10_NoCallAfterTarget ==
    \A t \in Threads : lateCalls[t] = 0

\* C10 as amended: with the target met no worker passes the check of line 84
\* again, so each worker starts at most one more call, the one whose check it
\* had passed before, and after it the worker only heads for its exit.
C10_AtMostOneLateCall ==
    \A t \in Threads :
        /\ lateCalls[t] <= 1
        /\ (CounterCreated /\ counter.value >= total /\ pc[t] = "Requesting")
              => lateCalls[t] = 0
        /\ lateCalls[t] = 1 =>
              pc[t] \in {"InFlight", "Parsing", "Validating", "Committing",
                         "CommitLocked", "Checking", "CheckLocked", "Done"}

C10_Witness ==
    \E t \in Threads : lateCalls[t] = 1 /\ pc[t] = "Done"

\* The positions at which a worker is inside a `with counter_lock:` block
\* (lines 83-85 and 104-115).
InLockedSection(t) == pc[t] = "CheckLocked" \/ InCommitSection(t)

\* C11: at most one worker is inside a block guarded by counter_lock, and it
\* is the holder of the lock; from a worker's check of line 105 to its
\* increment of line 110 the count it checked still stands, no step of
\* another worker intervenes on the counter, and every change of the counter
\* after its creation is made by the holder of the lock.
C11_CheckAndIncrementAtomic ==
    /\ [](/\ Cardinality(counter_lock) <= 1
          /\ \A t \in Threads : InLockedSection(t) <=> t \in counter_lock
          /\ \A t \in Threads :
               pc[t] \in {"Opening", "Dumping", "Incrementing"}
                  => counter.value < total)
    /\ [][/\ (CounterCreated /\ counter' # counter)
               => \E t \in counter_lock : pc[t] = "Incrementing" /\ pc'[t] = "Checking"
          /\ \A t \in Threads :
               (pc[t] \in {"Opening", "Dumping"} /\ pc'[t] # "Crashed")
                  => (counter' = counter /\ counter_lock' = counter_lock)]_vars

C11_Witness ==
    \E t, u \in Threads :
        /\ pc[t] = "Incrementing"
        /\ pc[u] = "Committing"
        /\ counter.value = total - 1

\* The positions of lines 87-101: the API call, the decode and the validation.
OutsideLockWork(t) == pc[t] \in {"Requesting", "InFlight", "Parsing", "Validating"}

\* C12: a worker at its API call, decode or validation does not hold
\* counter_lock; so while every other worker is at such a position, a worker
\* waiting at line 83 or line 104 can take the lock at once.
C12_NoLockDuringCall ==
    /\ \A t \in Threads : OutsideLockWork(t) => t \notin counter_lock
    /\ \A u \in Threads :
         (\A t \in Threads \ {u} : OutsideLockWork(t) \/ pc[t] = "NotStarted")
            => /\ pc[u] = "Checking" => ENABLED AcquireCheck(u)
               /\ pc[u] = "Committing" => ENABLED AcquireCommit(u)

C12_Witness ==
    \E t, u \in Threads :
        /\ pc[t] = "InFlight"
        /\ pc[u] = "CommitLocked"

\* C13: no file of the log directory holds partial content under its final
\* name.  Stated in the form most favourable to the code, which allows a file
\* to be incomplete while its writer is still at the dump of line 109: a file
\* whose writer has left the write is complete.
C13_NoPartialFileLeft ==
    \A n \in DOMAIN log_dir :
        log_dir[n] = "partial" => \E t \in Threads : pc[t] = "Dumping" /\ out_path[t] = n

\* C14: with the prompt file, the schema file or the API key missing, main
\* gets no further than the check that finds it missing, where it exits with
\* status 1: it never counts outputs, creates the counter, starts a thread,
\* lets a call be made or a file be written.
C14_MissingInputAborts ==
    ~(promptExists /\ schemaExists /\ apiKeySet) =>
        /\ mainPc \in {"LoadFiles", "ReadKey", "Exit1"}
        /\ (mainPc = "ReadKey" => (promptExists /\ schemaExists))
        /\ ~ENABLED CountExisting
        /\ ~CounterCreated
        /\ started = 0
        /\ \A t \in Threads : pc[t] = "NotStarted"
        /\ validReturned = 0 /\ ~clientFailed
        /\ Created = {}

C14_Witness ==
    /\ mainPc = "Exit1"
    /\ promptExists /\ schemaExists /\ ~apiKeySet
    /\ total > AlreadyPersisted

\* The files the exporter has gone through and made a trace of, if any.
XesDone == {i \in 1..xesPos : ~(xesPending # << >> /\ xesPending[1].trace_id = i)}

ArtifactHasEvents(f) == f.json = "object" /\ f.hasEvents /\ f.isList

TracesOf(i) == {k \in 1..Len(xesLog) : xesLog[k].attributes["concept:name"] = Num(i)}

\* What the canonical timestamp of an event must be for the value v found
\* under "timestamp": a body with "+00:00" or with "Z" is the same instant,
\* any other string is the date-time it denotes or the string itself, and a
\* value that is not a string is carried over.
CanonicalTimestampOk(v, out) ==
    IF v.kind # "str"
      THEN out = v
      ELSE IF Len(v.s) = 2 /\ v.s[1] \in Bodies /\ v.s[2] \in {"+00:00", "Z"}
             THEN out = DateTime(v.s[1], "+00:00")
             ELSE \/ out = v
                  \/ /\ out.kind = "datetime"
                     /\ out.local = v.s[1]
                     /\ out.tz = IF Len(v.s) = 1 THEN "naive" ELSE v.s[2]

EventExported(in, out) ==
    /\ "activity" \in DOMAIN in =>
          "concept:name" \in DOMAIN out /\ out["concept:name"] = in["activity"]
    /\ "timestamp" \in DOMAIN in =>
          /\ "time:timestamp" \in DOMAIN out
          /\ CanonicalTimestampOk(in["timestamp"], out["time:timestamp"])
    /\ "activity" \notin DOMAIN out
    /\ "timestamp" \notin DOMAIN out
    /\ \A k \in DOMAIN in \ {"activity", "timestamp", "concept:name", "time:timestamp"} :
          k \in DOMAIN out /\ out[k] = in[k]

\* C15: every artifact with an events list that the exporter has gone through
\* has exactly one trace in the log, the traces follow the order of the files,
\* and the trace has the artifact's events in their order, each with its
\* activity under concept:name, its timestamp under time:timestamp ("+00:00"
\* and "Z" giving the same instant) and without the keys activity and
\* timestamp.
C15_ArtifactBecomesTrace ==
    /\ \A i \in XesDone :
          ArtifactHasEvents(xesFiles[i]) =>
             /\ Cardinality(TracesOf(i)) = 1
             /\ \A k \in TracesOf(i) :
                   /\ Len(xesLog[k].events) = Len(xesFiles[i].events)
                   /\ \A j \in 1..Len(xesFiles[i].events) :
                         EventExported(xesFiles[i].events[j], xesLog[k].events[j])
    /\ \A k1, k2 \in 1..Len(xesLog) :
          k1 < k2 => xesLog[k1].attributes["concept:name"].n
                       < xesLog[k2].attributes["concept:name"].n

C15_Witness ==
    /\ xesPc = "Exported"
    /\ Len(xesFiles) >= 1
    /\ ArtifactHasEvents(xesFiles[1])
    /\ xesFiles[1].events =
          << ("activity" :> Str(<<"A">>)) @@ ("timestamp" :> Str(<<"D1", "+00:00">>)),
             ("activity" :> Str(<<"B">>)) @@ ("timestamp" :> Str(<<"D1", "Z">>)) >>
    /\ Len(xesLog) >= 1
    /\ xesLog[1].events =
          << ("concept:name" :> Str(<<"A">>))
                 @@ ("time:timestamp" :> DateTime("D1", "+00:00")),
             ("concept:name" :> Str(<<"B">>))
                 @@ ("time:timestamp" :> DateTime("D1", "+00:00")) >>

\* C16: once main is past the early return, the outstanding work is positive,
\* the pool size is min(MAX_THREADS, total - existing) >= 1, exactly the
\* threads 1..started have been started (all of them once main waits), the
\* counter starts at the number of outputs found, and main completes only
\* after every started thread has terminated.
C16_PoolSizedAndJoined ==
    mainPc \in {"Launch", "Join", "Completed"} =>
        /\ total - existing > 0
        /\ existing = AlreadyPersisted
        /\ num_threads = Min(MAX_THREADS, total - existing)
        /\ num_threads >= 1
        /\ started <= num_threads
        /\ mainPc \in {"Join", "Completed"} => started = num_threads
        /\ {t \in Threads : pc[t] # "NotStarted"} = 1..started
        /\ started = 0 => counter.value = existing
        /\ \A t \in 1..joined : Finished(t)
        /\ mainPc = "Completed" => (joined = started /\ \A t \in 1..started : Finished(t))

C16_Witness ==
    /\ mainPc = "Completed"
    /\ started = MAX_THREADS
    /\ total - existing > MAX_THREADS
    /\ counter.value = total

\* C17: the check of lines 83-85, whether it lets the worker go on or makes it
\* return, changes neither the counter nor the log directory; and the commit
\* check of line 105 that finds counter['value'] >= target leaves the counter
\* and the log directory as they are and makes the worker return.
C17_NonAcceptingOpsChangeNothing ==
    [][\A t \in Threads :
         /\ (pc[t] = "CheckLocked" /\ pc'[t] # pc[t])
               => /\ counter' = counter
                  /\ log_dir' = log_dir
                  /\ pc'[t] = IF counter.value >= total THEN "Done" ELSE "Requesting"
         /\ (pc[t] = "CommitLocked" /\ pc'[t] # pc[t] /\ counter.value >= total)
               => /\ counter' = counter
                  /\ log_dir' = log_dir
                  /\ pc'[t] = "Done"
                  /\ t \notin counter_lock']_vars

C17_Witness ==
    \E t, u \in Threads :
        /\ pc[t] = "Done" /\ rejected[t] = 1
        /\ pc[u] = "Done" /\ rejected[u] = 0
        /\ counter.value = total
        /\ Cardinality(Created) = total - existing

\* C18: past the early return, for as long as no call has returned a
\* schema-valid candidate, the counter stays at the number of outputs found,
\* no file is created, no started worker has terminated, main has not
\* completed, and every started worker has a next step or waits for the lock
\* at line 83: nothing but a valid candidate ends the retrying.
C18_AllFailingNeverEnds ==
    (mainPc \in {"Launch", "Join", "Completed"} /\ validReturned = 0) =>
        /\ counter.value = existing
        /\ Created = {}
        /\ mainPc # "Completed"
        /\ \A t \in 1..started :
             /\ ~Finished(t)
             /\ ENABLED worker(t) \/ (pc[t] = "Checking" /\ counter_lock # {})

C18_Witness ==
    /\ mainPc = "Join"
    /\ validReturned = 0
    /\ \E t, u \in Threads :
         /\ pc[t] = "InFlight" /\ err[t] = "none"
         /\ pc[u] = "Checking" /\ err[u] \in CaughtAt99

\* The workers that have lost a schema-valid candidate: to a refused commit
\* (line 113), or to a write that raised (lines 108-109).  Either way the
\* worker terminates, so each worker counts once.
LostValidCandidate == {t \in Threads : rejected[t] > 0 \/ pc[t] = "Crashed"}

\* C19: a worker is refused a commit at most once, and in a run with
\* N = num_threads workers at most N - 1 schema-valid candidates are discarded.
C19_WasteBelowPoolSize ==
    mainPc \in {"Launch", "Join", "Completed"} =>
        /\ \A t \in Threads : rejected[t] <= 1
        /\ Cardinality(LostValidCandidate) <= num_threads - 1

\* C20: whoever holds counter_lock is inside one of the two with blocks (a
\* worker that has returned, died, or gone back to the top of the loop holds
\* nothing), the holder always has a next step, and a held lock is always
\* released again, whatever happens inside the block.
C20_LockAlwaysReleased ==
    /\ [](\A t \in Threads : t \in counter_lock => InLockedSection(t))
    /\ [](counter_lock # {} => \E t \in counter_lock : ENABLED worker(t))
    /\ (counter_lock # {}) ~> (counter_lock = {})

C20_Witness ==
    \E t, u \in Threads :
        /\ pc[t] = "Crashed"
        /\ pc[u] = "CommitLocked"
        /\ u \in counter_lock

====
